---- MODULE Spec2Model ----
(***************************************************************************)
(* IdIndex<K, V> of lib/src/id_prefix.rs: a vector of (key, value) pairs   *)
(* sorted by key, with prefix lookup, exact membership and the shortest    *)
(* unique prefix length of a key.  Keys are byte strings (ObjectId),       *)
(* prefixes are HexPrefix values (a hex digit string, possibly of odd      *)
(* length).  Positions are 0-based as in the source; sequences are         *)
(* 1-based, so the entry at position p is index[p + 1].                    *)
(***************************************************************************)
EXTENDS Integers, Sequences, FiniteSets

VARIABLES vec, index, op, arg, ret

vars == <<vec, index, op, arg, ret>>

(***************************************************************************)
(* Bounds and input universes.                                             *)
(***************************************************************************)
\* largest construction batch handed to from_vec
MaxBatch == 3

\* bytes a key is made of: 0x00, 0x01, 0x10, 0x11
Bytes == {0, 1, 16, 17}

\* hex digits a prefix query is made of
Digits == {0, 1}

\* keys: the one-byte keys 00, 01, 10, 11 and the two-byte keys 0100, 0101,
\* 0110, 0111 (keys of both lengths in one index, as in the tests; 01 is a
\* strict prefix of the longer keys; keys differ at digit 0, 1, 2 or 3)
Keys == {<<b>> : b \in Bytes} \cup {<<1, b>> : b \in Bytes}

\* hex digit strings of 0 to 4 digits: empty, odd and even, up to the digit
\* length of the longest key and longer than the one-byte keys
HexStrings == UNION {[1..n -> Digits] : n \in 0..4}

Min(a, b) == IF a <= b THEN a ELSE b

SetMax(S) == CHOOSE x \in S : \A y \in S : y <= x

SetMin(S) == CHOOSE x \in S : \A y \in S : x <= y

(***************************************************************************)
(* Identifier contract (crate::backend).                                   *)
(***************************************************************************)
\* ObjectId::hex / iter_half_bytes: two hex digits per byte, high nibble first
iter_half_bytes(bytes) ==
    [i \in 1..(2 * Len(bytes)) |->
        IF i % 2 = 1 THEN bytes[(i + 1) \div 2] \div 16
                     ELSE bytes[i \div 2] % 16]

\* number of leading hex digits two byte strings share, capped at the shorter
common_hex_len(bytes_a, bytes_b) ==
    LET ha == iter_half_bytes(bytes_a)
        hb == iter_half_bytes(bytes_b)
        n  == Min(Len(ha), Len(hb))
        differ == {i \in 1..n : ha[i] # hb[i]}
    IN  IF differ = {} THEN n ELSE SetMin(differ) - 1

\* Ord of byte strings: unsigned lexicographic, a strict prefix sorts first
cmp(a, b) ==
    LET n == Min(Len(a), Len(b))
        differ == {i \in 1..n : a[i] # b[i]}
    IN  IF differ = {}
        THEN IF Len(a) < Len(b) THEN "Less"
             ELSE IF Len(a) = Len(b) THEN "Equal" ELSE "Greater"
        ELSE IF a[SetMin(differ)] < b[SetMin(differ)] THEN "Less" ELSE "Greater"

(***************************************************************************)
(* Prefix Query contract (crate::index::HexPrefix).                        *)
(***************************************************************************)
\* HexPrefix::new: an odd-length prefix is padded with a 0 digit
HexPrefix_new(hex) ==
    LET has_odd == Len(hex) % 2 = 1
        padded  == IF has_odd THEN hex \o <<0>> ELSE hex
    IN  [min_prefix_bytes |->
            [i \in 1..(Len(padded) \div 2) |-> 16 * padded[2 * i - 1] + padded[2 * i]],
         has_odd_byte |-> has_odd]

min_prefix_bytes(prefix) == prefix.min_prefix_bytes

\* HexPrefix::matches: the whole bytes of the prefix start the id and, for an
\* odd prefix, the high nibble of the id's next byte equals the last digit
matches(prefix, id_bytes) ==
    LET mb    == prefix.min_prefix_bytes
        whole == IF prefix.has_odd_byte THEN SubSeq(mb, 1, Len(mb) - 1) ELSE mb
        starts_with == /\ Len(id_bytes) >= Len(whole)
                       /\ \A i \in 1..Len(whole) : id_bytes[i] = whole[i]
    IN  /\ starts_with
        /\ prefix.has_odd_byte =>
              /\ Len(id_bytes) > Len(whole)
              /\ (id_bytes[Len(whole) + 1] \div 16) * 16 = mb[Len(mb)]

(***************************************************************************)
(* Slice helpers the index calls.                                          *)
(***************************************************************************)
\* binary search over pred(self[i]): first position whose element fails pred
RECURSIVE partition_search(_, _, _)
partition_search(flags, lo, hi) ==
    IF lo >= hi THEN lo
    ELSE LET mid == lo + ((hi - lo) \div 2)
         IN  IF flags[mid + 1] THEN partition_search(flags, mid + 1, hi)
                               ELSE partition_search(flags, lo, mid)

partition_point(flags) == partition_search(flags, 0, Len(flags))

\* binary search over f(self[i]): TRUE when a position compares Equal
RECURSIVE binary_search_by(_, _, _)
binary_search_by(ords, lo, hi) ==
    IF lo >= hi THEN FALSE
    ELSE LET mid == lo + ((hi - lo) \div 2)
         IN  IF ords[mid + 1] = "Equal" THEN TRUE
             ELSE IF ords[mid + 1] = "Less" THEN binary_search_by(ords, mid + 1, hi)
             ELSE binary_search_by(ords, lo, mid)

\* the longest leading run of a sequence of flags that are all TRUE
take_while(flags) ==
    LET stop == {i \in 1..Len(flags) : ~flags[i]}
    IN  IF stop = {} THEN Len(flags) ELSE SetMin(stop) - 1

\* every order sort_unstable_by can leave the pairs at the positions S in:
\* ascending by key, pairs of equal keys in any order
RECURSIVE sort_unstable_by(_, _)
sort_unstable_by(v, S) ==
    IF S = {} THEN {<<>>}
    ELSE UNION {{<<v[i]>> \o t : t \in sort_unstable_by(v, S \ {i})} :
                  i \in {j \in S : \A m \in S : cmp(v[j][1], v[m][1]) # "Greater"}}

(***************************************************************************)
(* IdIndex.                                                                *)
(***************************************************************************)
\* from_vec without the sort
from_vec_unsorted(v) == {v}

from_vec(v) == sort_unstable_by(v, 1..Len(v))

\* partition_point on k.as_bytes() <= min_bytes
resolve_prefix_range_le(self, prefix) ==
    LET min_bytes == min_prefix_bytes(prefix)
        pos  == partition_point([i \in 1..Len(self) |->
                                    cmp(self[i][1], min_bytes) # "Greater"])
        tail == SubSeq(self, pos + 1, Len(self))
        n    == take_while([i \in 1..Len(tail) |-> matches(prefix, tail[i][1])])
    IN  SubSeq(tail, 1, n)

resolve_prefix_range(self, prefix) ==
    LET min_bytes == min_prefix_bytes(prefix)
        pos  == partition_point([i \in 1..Len(self) |->
                                    cmp(self[i][1], min_bytes) = "Less"])
        tail == SubSeq(self, pos + 1, Len(self))
        n    == take_while([i \in 1..Len(tail) |-> matches(prefix, tail[i][1])])
    IN  SubSeq(tail, 1, n)

NoMatch == [variant |-> "NoMatch"]

AmbiguousMatch == [variant |-> "AmbiguousMatch"]

SingleMatch(entries) == [variant |-> "SingleMatch", entries |-> entries]

\* more than one matched entry counts as ambiguity
resolve_prefix_with_count(self, prefix, value_mapper) ==
    LET range == resolve_prefix_range(self, prefix)
    IN  IF range = <<>> THEN NoMatch
        ELSE IF Len(range) = 1 THEN SingleMatch(<<value_mapper[range[1][2]]>>)
        ELSE AmbiguousMatch

\* collects the value of the first matched entry only
resolve_prefix_with_first(self, prefix, value_mapper) ==
    LET range == resolve_prefix_range(self, prefix)
    IN  IF range = <<>> THEN NoMatch
        ELSE IF \A i \in 1..Len(range) : range[i][1] = range[1][1]
             THEN SingleMatch(<<value_mapper[range[1][2]]>>)
             ELSE AmbiguousMatch

resolve_prefix_with(self, prefix, value_mapper) ==
    LET range == resolve_prefix_range(self, prefix)
    IN  IF range # <<>>
        THEN LET first_key == range[1][1]
                 maybe_entries ==
                     [i \in 1..Len(range) |->
                         IF range[i][1] = first_key
                         THEN <<value_mapper[range[i][2]]>> ELSE <<>>]
             IN  IF \A i \in 1..Len(range) : maybe_entries[i] # <<>>
                 THEN SingleMatch([i \in 1..Len(range) |-> maybe_entries[i][1]])
                 ELSE AmbiguousMatch
        ELSE NoMatch

\* the comparison of binary_search_by the wrong way round: key.cmp(k)
has_key_reversed(self, key) ==
    binary_search_by([i \in 1..Len(self) |-> cmp(key, self[i][1])], 0, Len(self))

has_key(self, key) ==
    binary_search_by([i \in 1..Len(self) |-> cmp(self[i][1], key)], 0, Len(self))

\* the candidates of the chained neighbours, their maximum, or 0
max_candidate(key, chain) ==
    LET cands == {common_hex_len(key, chain[i][1]) + 1 : i \in 1..Len(chain)}
    IN  IF cands = {} THEN 0 ELSE SetMax(cands)

\* left neighbour taken one position too far: pos.checked_sub(2)
shortest_unique_prefix_len_left2(self, key) ==
    LET pos   == partition_point([i \in 1..Len(self) |-> cmp(self[i][1], key) = "Less"])
        left  == IF pos >= 2 THEN <<self[pos - 1]>> ELSE <<>>
        other == {i \in (pos + 1)..Len(self) : self[i][1] # key}
        right == IF other # {} THEN <<self[SetMin(other)]>> ELSE <<>>
    IN  max_candidate(key, left \o right)

\* right neighbour taken at pos without skipping the entries equal to key
shortest_unique_prefix_len_noskip(self, key) ==
    LET pos   == partition_point([i \in 1..Len(self) |-> cmp(self[i][1], key) = "Less"])
        left  == IF pos >= 1 THEN <<self[pos]>> ELSE <<>>
        right == IF pos + 1 <= Len(self) THEN <<self[pos + 1]>> ELSE <<>>
    IN  max_candidate(key, left \o right)

\* the result capped at the digit length of key
shortest_unique_prefix_len_capped(self, key) ==
    LET pos   == partition_point([i \in 1..Len(self) |-> cmp(self[i][1], key) = "Less"])
        left  == IF pos >= 1 THEN <<self[pos]>> ELSE <<>>
        other == {i \in (pos + 1)..Len(self) : self[i][1] # key}
        right == IF other # {} THEN <<self[SetMin(other)]>> ELSE <<>>
    IN  Min(max_candidate(key, left \o right), 2 * Len(key))

\* the shared run of each neighbour without the one digit more
shortest_unique_prefix_len_no_plus_one(self, key) ==
    LET pos   == partition_point([i \in 1..Len(self) |-> cmp(self[i][1], key) = "Less"])
        left  == IF pos >= 1 THEN <<self[pos]>> ELSE <<>>
        other == {i \in (pos + 1)..Len(self) : self[i][1] # key}
        right == IF other # {} THEN <<self[SetMin(other)]>> ELSE <<>>
        chain == left \o right
        cands == {common_hex_len(key, chain[i][1]) : i \in 1..Len(chain)}
    IN  IF cands = {} THEN 0 ELSE SetMax(cands)

\* the right neighbour left out
shortest_unique_prefix_len_left_only(self, key) ==
    LET pos   == partition_point([i \in 1..Len(self) |-> cmp(self[i][1], key) = "Less"])
        left  == IF pos >= 1 THEN <<self[pos]>> ELSE <<>>
    IN  max_candidate(key, left)

shortest_unique_prefix_len(self, key) ==
    LET pos   == partition_point([i \in 1..Len(self) |-> cmp(self[i][1], key) = "Less"])
        left  == IF pos >= 1 THEN <<self[pos]>> ELSE <<>>
        other == {i \in (pos + 1)..Len(self) : self[i][1] # key}
        right == IF other # {} THEN <<self[SetMin(other)]>> ELSE <<>>
    IN  max_candidate(key, left \o right)

(***************************************************************************)
(* Callers' inputs.                                                        *)
(***************************************************************************)
\* values: the i32 values 0, 1, 2, ... of the tests
Values == 0..(MaxBatch - 1)

\* batches of pairs: the keys in any order, with repeats; the values either
\* distinct (the pair's position, as in test_id_index_resolve_prefix) or all
\* the same (the () values of test_id_index_shortest_unique_prefix_len)
Batches ==
    UNION {{[i \in 1..n |-> <<ks[i], IF distinct THEN i - 1 ELSE 0>>] :
               ks \in [1..n -> Keys], distinct \in BOOLEAN} : n \in 0..MaxBatch}

\* value mappers: the clone of resolve_prefix, and for resolve_prefix_with a
\* function that changes the value
Clone == [v \in Values |-> v]

Mappers == {[v \in Values |-> 10 + v]}

HexPrefixes == {HexPrefix_new(hex) : hex \in HexStrings}

(***************************************************************************)
(* The state machine: an index is built once from vec, then queried any    *)
(* number of times.  Every query is a synchronous call on &self: op, arg   *)
(* and ret hold the call in progress and the value it returns, and are     *)
(* cleared when the caller takes the value.                                *)
(***************************************************************************)
Init ==
    /\ vec \in Batches
    /\ index \in from_vec(vec)
    /\ op = "idle"
    /\ arg = <<>>
    /\ ret = <<>>

HasKey(key) ==
    /\ op = "idle"
    /\ op' = "has_key"
    /\ arg' = key
    /\ ret' = has_key(index, key)
    /\ UNCHANGED <<vec, index>>

ResolvePrefixRange(prefix) ==
    /\ op = "idle"
    /\ op' = "resolve_prefix_range"
    /\ arg' = prefix
    /\ ret' = resolve_prefix_range(index, prefix)
    /\ UNCHANGED <<vec, index>>

ResolvePrefixWith(prefix, value_mapper) ==
    /\ op = "idle"
    /\ op' = "resolve_prefix_with"
    /\ arg' = <<prefix, value_mapper>>
    /\ ret' = resolve_prefix_with(index, prefix, value_mapper)
    /\ UNCHANGED <<vec, index>>

ResolvePrefix(prefix) ==
    /\ op = "idle"
    /\ op' = "resolve_prefix"
    /\ arg' = <<prefix, Clone>>
    /\ ret' = resolve_prefix_with(index, prefix, Clone)
    /\ UNCHANGED <<vec, index>>

ShortestUniquePrefixLen(key) ==
    /\ op = "idle"
    /\ op' = "shortest_unique_prefix_len"
    /\ arg' = key
    /\ ret' = shortest_unique_prefix_len(index, key)
    /\ UNCHANGED <<vec, index>>

Return ==
    /\ op # "idle"
    /\ op' = "idle"
    /\ arg' = <<>>
    /\ ret' = <<>>
    /\ UNCHANGED <<vec, index>>

Next ==
    \/ \E key \in Keys : HasKey(key)
    \/ \E prefix \in HexPrefixes : ResolvePrefixRange(prefix)
    \/ \E prefix \in HexPrefixes, value_mapper \in Mappers :
          ResolvePrefixWith(prefix, value_mapper)
    \/ \E prefix \in HexPrefixes : ResolvePrefix(prefix)
    \/ \E key \in Keys : ShortestUniquePrefixLen(key)
    \/ Return

Spec == Init /\ [][Next]_vars

(***************************************************************************)
(* Vocabulary of the properties.                                           *)
(***************************************************************************)
\* the hex digits of a prefix query
PrefixDigits(prefix) ==
    LET all == iter_half_bytes(prefix.min_prefix_bytes)
    IN  IF prefix.has_odd_byte THEN SubSeq(all, 1, Len(all) - 1) ELSE all

\* the hex digits of key begin with the digits hex
BeginsWith(key, hex) ==
    LET digits == iter_half_bytes(key)
    IN  /\ Len(hex) <= Len(digits)
        /\ \A i \in 1..Len(hex) : digits[i] = hex[i]

\* the query made of the first n hex digits of key (all of them when n is more)
LeadingDigits(key, n) ==
    HexPrefix_new(SubSeq(iter_half_bytes(key), 1, Min(n, 2 * Len(key))))

\* the keys of a sequence of entries
KeysOf(entries) == {entries[i][1] : i \in 1..Len(entries)}

\* some key of the index is strictly longer than key and begins with its digits
HasExtension(key) ==
    \E k \in KeysOf(index) : Len(k) > Len(key) /\ BeginsWith(k, iter_half_bytes(key))

\* the number of times a pair occurs in a sequence of entries
Count(entries, e) == Cardinality({i \in 1..Len(entries) : entries[i] = e})

IsResolve == op \in {"resolve_prefix", "resolve_prefix_with"}

IsShortest == op = "shortest_unique_prefix_len"

(***************************************************************************)
(* C1: the variant resolve_prefix / resolve_prefix_with returns is decided *)
(* by the number of distinct keys among the entries of                     *)
(* resolve_prefix_range: NoMatch iff there is no entry, AmbiguousMatch iff *)
(* the entries span two or more keys, SingleMatch iff there is an entry    *)
(* and all entries share one key.                                          *)
(***************************************************************************)
C1_VariantByDistinctKeys ==
    IsResolve =>
        LET range == resolve_prefix_range(index, arg[1])
            n     == Cardinality(KeysOf(range))
        IN  /\ ret.variant = "NoMatch" <=> range = <<>>
            /\ ret.variant = "AmbiguousMatch" <=> n >= 2
            /\ ret.variant = "SingleMatch" <=> (range # <<>> /\ n = 1)

\* a query over duplicate entries of one key resolves to SingleMatch
C1_Witness ==
    /\ op = "resolve_prefix"
    /\ ret.variant = "SingleMatch"
    /\ Len(resolve_prefix_range(index, arg[1])) >= 2
    /\ Len(index) > Len(resolve_prefix_range(index, arg[1]))

(***************************************************************************)
(* C2: when the outcome is SingleMatch(vs), every entry of                 *)
(* resolve_prefix_range has the same key and vs holds the mapped value of  *)
(* each entry, one per entry, in index order, duplicates included.         *)
(***************************************************************************)
C2_SingleMatchValues ==
    (IsResolve /\ ret.variant = "SingleMatch") =>
        LET range == resolve_prefix_range(index, arg[1])
        IN  /\ \A i, j \in 1..Len(range) : range[i][1] = range[j][1]
            /\ Len(ret.entries) = Len(range)
            /\ \A i \in 1..Len(range) : ret.entries[i] = arg[2][range[i][2]]

\* a SingleMatch that carries the mapped values of two entries of one key
C2_Witness ==
    /\ op = "resolve_prefix_with"
    /\ ret.variant = "SingleMatch"
    /\ Len(ret.entries) >= 2
    /\ ret.entries[1] # ret.entries[2]
    /\ ret.entries[1] \notin Values

(***************************************************************************)
(* C3, as claimed: for every key k of the index, with n the value of       *)
(* shortest_unique_prefix_len(k), the query of the first n hex digits of k *)
(* exists and matches at least one entry and only entries keyed k.         *)
(***************************************************************************)
C3_Original ==
    (IsShortest /\ has_key(index, arg)) =>
        LET range == resolve_prefix_range(index, LeadingDigits(arg, ret))
        IN  /\ ret <= 2 * Len(arg)
            /\ range # <<>>
            /\ KeysOf(range) = {arg}

(***************************************************************************)
(* C3, amended: the same for every key k of the index that is not a strict *)
(* leading-digit prefix of a longer key of the index.                      *)
(***************************************************************************)
C3_UniquePrefixResolves ==
    (IsShortest /\ has_key(index, arg) /\ ~HasExtension(arg)) =>
        LET range == resolve_prefix_range(index, LeadingDigits(arg, ret))
        IN  /\ ret <= 2 * Len(arg)
            /\ range # <<>>
            /\ KeysOf(range) = {arg}
            /\ resolve_prefix_with(index, LeadingDigits(arg, ret), Clone).variant
                  = "SingleMatch"

\* a key among three keys that needs an odd number of digits
C3_Witness ==
    /\ IsShortest
    /\ has_key(index, arg)
    /\ ~HasExtension(arg)
    /\ Cardinality(KeysOf(index)) >= 3
    /\ ret = 3

(***************************************************************************)
(* C4: shortest_unique_prefix_len(k) is minimal: for a key k of the index  *)
(* with n >= 1, every query of fewer than n leading digits of k matches k  *)
(* and an entry of another key, and resolves to AmbiguousMatch.            *)
(***************************************************************************)
C4_ShorterIsAmbiguous ==
    (IsShortest /\ has_key(index, arg) /\ ret >= 1) =>
        \A m \in 0..(ret - 1) :
            LET range == resolve_prefix_range(index, LeadingDigits(arg, m))
            IN  /\ m <= 2 * Len(arg)
                /\ arg \in KeysOf(range)
                /\ KeysOf(range) # {arg}
                /\ resolve_prefix_with(index, LeadingDigits(arg, m), Clone)
                      = AmbiguousMatch

\* a duplicated key whose three-digit prefix is the shortest unique one
C4_Witness ==
    /\ IsShortest
    /\ Cardinality({i \in 1..Len(index) : index[i][1] = arg}) >= 2
    /\ ret >= 3

(***************************************************************************)
(* C5: for every key k, in the index or not, the value computed from the   *)
(* two neighbours equals the full scan: the maximum over all entries whose *)
(* key differs from k of the shared leading digits plus one, 0 when there  *)
(* is no such entry.                                                       *)
(***************************************************************************)
C5_NeighboursEqualFullScan ==
    IsShortest =>
        LET cands == {common_hex_len(arg, k) + 1 : k \in KeysOf(index) \ {arg}}
        IN  ret = IF cands = {} THEN 0 ELSE SetMax(cands)

\* three other keys, the closest of them sharing digits with the key
C5_Witness ==
    /\ IsShortest
    /\ Cardinality(KeysOf(index) \ {arg}) >= 3
    /\ ret >= 3
    /\ \E k \in KeysOf(index) : common_hex_len(arg, k) = 0

(***************************************************************************)
(* C6, as claimed: has_key(k) is true iff resolve_prefix_range of the      *)
(* query made of all hex digits of k is non-empty, keys of one index being *)
(* of different digit lengths.                                             *)
(***************************************************************************)
C6_Original ==
    op = "has_key" =>
        (ret <=> resolve_prefix_range(index, LeadingDigits(arg, 2 * Len(arg))) # <<>>)

(***************************************************************************)
(* C6, amended: has_key(k) is true iff resolve_prefix_range of the query   *)
(* made of all hex digits of k holds an entry keyed exactly k; the range   *)
(* is non-empty without has_key(k) only when a strictly longer key of the  *)
(* index begins with the digits of k.                                      *)
(***************************************************************************)
C6_HasKeyAgreesOnExactKey ==
    op = "has_key" =>
        LET range == resolve_prefix_range(index, LeadingDigits(arg, 2 * Len(arg)))
        IN  /\ ret <=> arg \in KeysOf(range)
            /\ ~HasExtension(arg) => (ret <=> range # <<>>)

\* has_key finds a key among three keys, with no longer key beginning with it
C6_Witness ==
    /\ op = "has_key"
    /\ ret = TRUE
    /\ ~HasExtension(arg)
    /\ Cardinality(KeysOf(index)) >= 3

(***************************************************************************)
(* C7: whenever the index holds a key strictly longer than key that begins *)
(* with every hex digit of key, shortest_unique_prefix_len(key) is the     *)
(* digit length of key plus one, key in the index or not, whatever the     *)
(* left neighbour.                                                         *)
(***************************************************************************)
C7_ExactPrefixPlusOne ==
    (IsShortest /\ HasExtension(arg)) => ret = 2 * Len(arg) + 1

\* key in the index, with a left neighbour and a longer key beginning with it
C7_Witness ==
    /\ IsShortest
    /\ HasExtension(arg)
    /\ has_key(index, arg)
    /\ \E k \in KeysOf(index) : cmp(k, arg) = "Less"
    /\ ret = 3

(***************************************************************************)
(* C8: resolve_prefix_range(q) yields exactly the entries whose key's hex  *)
(* digits begin with the digits of q, each once, in index order.           *)
(***************************************************************************)
C8_RangeIsExactlyTheMatches ==
    op = "resolve_prefix_range" =>
        LET Matched(e) == BeginsWith(e[1], PrefixDigits(arg))
        IN  ret = SelectSeq(index, Matched)

\* an odd query matching a run in the middle of the index
C8_Witness ==
    /\ op = "resolve_prefix_range"
    /\ arg.has_odd_byte
    /\ Len(ret) >= 2
    /\ Cardinality(KeysOf(ret)) >= 2
    /\ Len(index) > Len(ret)
    /\ index[1] # ret[1]

(***************************************************************************)
(* C9: for a key k absent from a non-empty index, adding to the            *)
(* construction batch keys that sort strictly below k's left neighbour or  *)
(* strictly above k's right neighbour leaves shortest_unique_prefix_len(k) *)
(* unchanged.  The batch of the index splits into a non-empty smaller      *)
(* batch (the positions S) and the added pairs (the other positions); the  *)
(* value on the index of the smaller batch equals the value returned.      *)
(***************************************************************************)
\* the pairs of vec outside S are far from key in the index of those at S
AddedAreFar(S, key) ==
    LET base  == {vec[i][1] : i \in S}
        below == {k \in base : cmp(k, key) = "Less"}
        above == {k \in base : cmp(k, key) = "Greater"}
    IN  \A i \in (1..Len(vec)) \ S :
            \/ \E l \in below :
                  /\ \A k \in below : cmp(k, l) # "Greater"
                  /\ cmp(vec[i][1], l) = "Less"
            \/ \E r \in above :
                  /\ \A k \in above : cmp(k, r) # "Less"
                  /\ cmp(vec[i][1], r) = "Greater"

C9_FarKeysDoNotMatter ==
    (IsShortest /\ index # <<>> /\ arg \notin KeysOf(index)) =>
        \A S \in SUBSET (1..Len(vec)) :
            (S # {} /\ AddedAreFar(S, arg)) =>
                \A smaller \in sort_unstable_by(vec, S) :
                    shortest_unique_prefix_len(smaller, arg) = ret

\* an index holding both neighbours of an absent key and a far key added
C9_Witness ==
    /\ IsShortest
    /\ arg \notin KeysOf(index)
    /\ ret >= 2
    /\ \E S \in SUBSET (1..Len(vec)) :
          /\ Cardinality(S) = 2
          /\ Len(vec) = 3
          /\ AddedAreFar(S, arg)
          /\ \E i, j \in S : cmp(vec[i][1], arg) = "Less" /\ cmp(vec[j][1], arg) = "Greater"

(***************************************************************************)
(* C10: in every reachable state, after from_vec on any batch and after    *)
(* any queries, the stored entries are sorted ascending by key and are a   *)
(* permutation of the construction batch.                                  *)
(***************************************************************************)
C10_SortedPermutation ==
    /\ \A i \in 1..(Len(index) - 1) : cmp(index[i][1], index[i + 1][1]) # "Greater"
    /\ Len(index) = Len(vec)
    /\ \A i \in 1..Len(vec) : Count(index, vec[i]) = Count(vec, vec[i])

\* a query has run on the index of an unsorted batch with a duplicate key
C10_Witness ==
    /\ op # "idle"
    /\ \E i, j \in 1..Len(vec) : i < j /\ cmp(vec[i][1], vec[j][1]) = "Greater"
    /\ \E i, j \in 1..Len(vec) : i < j /\ vec[i][1] = vec[j][1]

====
